---- MODULE Spec2Model ----
(***************************************************************************)
(* Training-load metrics engine of dux-wellness:                           *)
(*   src/modules/reports/metrics.py    snapshot indices, time series       *)
(*   src/modules/reports/ui_grupal.py  per-player table, squad aggregates  *)
(*                                                                         *)
(* Encoding of values.                                                     *)
(*   - a number is an exact rational <<n, d>>, d > 0, in lowest terms;     *)
(*   - None / NaN (an absent number) is the empty tuple <<>>;              *)
(*   - a signed square root  s * sqrt(n/d)  (standard deviation, monotony) *)
(*     is the tuple <<s, n, d>>, s in {-1, 0, 1}, n/d in lowest terms;     *)
(*   - a date is its proleptic ordinal (date.toordinal()), so ordinal 1 is *)
(*     a Monday; NaT / None (an absent date) is 0;                         *)
(*   - a table (DataFrame) is the sequence of its rows, each a record.     *)
(***************************************************************************)
EXTENDS Integers, Sequences, FiniteSets, TLC

VARIABLES
    df_raw,      \* the record table handed to the engine
    flt,         \* RPEFilters: [jugadores, turnos, start, end]
    ventanas,    \* <<ventana_aguda, ventana_cronica>> of the time-series calls
    pc,          \* "input" before the engine ran, then the entry point that ran
    res,         \* result of compute_rpe_metrics
    df_players,  \* result of compute_rpe_metrics_by_player
    grupo,       \* squad aggregates of metricas_grupal
    ui,          \* what metricas_grupal showed: "none", "no_records", "no_metrics", "summary"
    ts,          \* result of compute_rpe_timeseries
    ts_group     \* result of compute_rpe_timeseries_group

vars == <<df_raw, flt, ventanas, pc, res, df_players, grupo, ui, ts, ts_group>>

-----------------------------------------------------------------------------
(* Bounds of the model.                                                    *)

MaxRows == 3

-----------------------------------------------------------------------------
(* Exact arithmetic.                                                       *)

Null == <<>>

NaT == 0

Abs(n) == IF n < 0 THEN -n ELSE n

Sgn(n) == IF n < 0 THEN -1 ELSE IF n = 0 THEN 0 ELSE 1

RECURSIVE GCD(_, _)
GCD(a, b) == IF b = 0 THEN a ELSE GCD(b, a % b)

Rat(n, d) ==
    LET s == IF d < 0 THEN -1 ELSE 1
        g == GCD(Abs(n), Abs(d))
    IN  <<(s * n) \div g, (s * d) \div g>>

R(n) == <<n, 1>>

Zero == R(0)

RAdd(a, b) == Rat(a[1] * b[2] + b[1] * a[2], a[2] * b[2])

RSub(a, b) == Rat(a[1] * b[2] - b[1] * a[2], a[2] * b[2])

RMul(a, b) == Rat(a[1] * b[1], a[2] * b[2])

RDiv(a, b) == Rat(a[1] * b[2], a[2] * b[1])

\* s * sqrt(q) for a rational q >= 0
Surd(s, q) == IF q[1] = 0 \/ s = 0 THEN <<0, 0, 1>> ELSE <<s, q[1], q[2]>>

\* sqrt(q)
Sqrt(q) == Surd(1, q)

\* a / sqrt(v), v > 0:  sgn(a) * sqrt(a^2 / v)
RDivSqrt(a, v) == Surd(Sgn(a[1]), RDiv(RMul(a, a), v))

\* numpy.round(x, 2): x * 100 rounded to the nearest integer, ties to even
Round2(q) ==
    LET n == q[1] * 100
        d == q[2]
        f == n \div d
        r == n - f * d
        k == IF 2 * r < d THEN f
             ELSE IF 2 * r > d THEN f + 1
             ELSE IF f % 2 = 0 THEN f ELSE f + 1
    IN  Rat(k, 100)

-----------------------------------------------------------------------------
(* Sequences as table columns.                                             *)

\* Sum of a column without absent entries, by halves
RECURSIVE SumSeq(_)
SumSeq(s) ==
    IF s = <<>> THEN Zero
    ELSE IF Len(s) = 1 THEN s[1]
    ELSE RAdd(SumSeq(SubSeq(s, 1, Len(s) \div 2)),
              SumSeq(SubSeq(s, Len(s) \div 2 + 1, Len(s))))

NotNull(s) == SelectSeq(s, LAMBDA x : x # Null)

\* Series.sum(): absent entries are skipped; fewer than min_count present -> absent
SeriesSum(s, min_count) ==
    IF Len(NotNull(s)) < min_count THEN Null ELSE SumSeq(NotNull(s))

\* Series.mean(): absent entries are skipped; none present -> NaN
SeriesMean(s) ==
    IF NotNull(s) = <<>> THEN Null
    ELSE RDiv(SumSeq(NotNull(s)), R(Len(NotNull(s))))

RECURSIVE SumSqDev(_, _)
SumSqDev(s, m) ==
    IF s = <<>> THEN Zero
    ELSE RAdd(RMul(RSub(Head(s), m), RSub(Head(s), m)), SumSqDev(Tail(s), m))

\* Series.std(ddof): absent entries are skipped; n - ddof <= 0 -> NaN
SeriesStd(s, ddof) ==
    LET x == NotNull(s)
    IN  IF Len(x) - ddof <= 0 THEN Null
        ELSE Sqrt(RDiv(SumSqDev(x, SeriesMean(x)), R(Len(x) - ddof)))

Column(t, f) == [i \in 1..Len(t) |-> t[i][f]]

SetMin(S) == CHOOSE x \in S : \A y \in S : x <= y

SetMax(S) == CHOOSE x \in S : \A y \in S : y <= x

RECURSIVE SortedSeq(_)
SortedSeq(S) ==
    IF S = {} THEN <<>> ELSE <<SetMin(S)>> \o SortedSeq(S \ {SetMin(S)})

\* The column names of a table (of its rows' fields)
Columns(df) == IF df = <<>> THEN {} ELSE DOMAIN df[1]

\* if f not in df.columns: df[f] = v
EnsureColumn(df, f, v) ==
    IF f \in Columns(df) THEN df
    ELSE [i \in 1..Len(df) |->
            [c \in Columns(df) \cup {f} |-> IF c = f THEN v ELSE df[i][c]]]

-----------------------------------------------------------------------------
(* metrics.py: snapshot path.                                              *)

\* A load that is a text which does not parse as a number
NotANumber == <<0, 0>>

\* pd.to_numeric(v, errors = "coerce")
to_numeric(v) == IF v = NotANumber THEN Null ELSE v

\* _prepare_checkout_df raises KeyError: the table has rows and no
\* fecha_sesion column. With a fecha column the right-hand side of line 32
\* reads out["fecha_sesion"]; without one dropna(subset = ...) at line 33 does.
_prepare_checkout_df_KeyError(df) ==
    df # <<>> /\ "fecha_sesion" \notin Columns(df)

_prepare_checkout_df_any_tipo(df) ==
    IF df = <<>> THEN <<>>
    ELSE LET numeric == [i \in 1..Len(df) |->
                            [c \in Columns(df) \cup {"ua"} |->
                                IF c # "ua" THEN df[i][c]
                                ELSE IF "ua" \in Columns(df)
                                     THEN to_numeric(df[i].ua) ELSE Null]]
         IN  SelectSeq(numeric, LAMBDA r : r.fecha_sesion # NaT /\ r.ua # Null)

\* _prepare_checkout_df where it returns: the checkOut rows (every row when
\* there is no tipo column) whose ua, coerced to a number (NaN throughout when
\* there is no ua column), and fecha_sesion are both present
_prepare_checkout_df(df) ==
    IF df = <<>> THEN <<>>
    ELSE LET out     == IF "tipo" \in Columns(df)
                        THEN SelectSeq(df, LAMBDA r : r.tipo = "checkOut")
                        ELSE df
             numeric == [i \in 1..Len(out) |->
                            [c \in Columns(df) \cup {"ua"} |->
                                IF c # "ua" THEN out[i][c]
                                ELSE IF "ua" \in Columns(df)
                                     THEN to_numeric(out[i].ua) ELSE Null]]
         IN  SelectSeq(numeric, LAMBDA r : r.fecha_sesion # NaT /\ r.ua # Null)

\* _daily_loads: one row per date, sums with min_count = 1, ascending by date;
\* a table without a ua or minutos_sesion column gets one of zeros first
_daily_loads(df_in) ==
    IF df_in = <<>> THEN <<>>
    ELSE LET df     == EnsureColumn(EnsureColumn(df_in, "ua", Zero),
                                    "minutos_sesion", Zero)
             fechas == SortedSeq({df[i].fecha_sesion : i \in 1..Len(df)})
         IN  [k \in 1..Len(fechas) |->
                LET g == SelectSeq(df, LAMBDA r : r.fecha_sesion = fechas[k])
                IN  [fecha_sesion  |-> fechas[k],
                     ua_total      |-> SeriesSum(Column(g, "ua"), 1),
                     minutos_total |-> SeriesSum(Column(g, "minutos_sesion"), 1)]]

\* date.weekday(): Monday = 0
Weekday(d) == (d + 6) % 7

_current_week_range_trailing(end_day) == <<end_day - 6, end_day>>

\* _current_week_range: <<start, end>>
_current_week_range(end_day) ==
    LET start == end_day - Weekday(end_day)
    IN  <<start, start + 6>>

\* Calendar of the years 1..3 (no leap year among them)
DaysBeforeMonth == <<0, 31, 59, 90, 120, 151, 181, 212, 243, 273, 304, 334, 365>>

YearOf(d) == ((d - 1) \div 365) + 1

DayOfYear(d) == ((d - 1) % 365) + 1

MonthOf(d) == CHOOSE m \in 1..12 :
    DaysBeforeMonth[m] < DayOfYear(d) /\ DayOfYear(d) <= DaysBeforeMonth[m + 1]

Ordinal(y, m, dd) == (y - 1) * 365 + DaysBeforeMonth[m] + dd

\* _month_range: <<start, end>>
_month_range(end_day) ==
    LET y == YearOf(end_day)
        m == MonthOf(end_day)
        start == Ordinal(y, m, 1)
        next_month_start == IF m = 12 THEN Ordinal(y + 1, 1, 1)
                            ELSE Ordinal(y, m + 1, 1)
    IN  <<start, next_month_start - 1>>

\* daily[(fecha_sesion >= a) & (fecha_sesion <= b)]
Between(daily, a, b) ==
    SelectSeq(daily, LAMBDA r : r.fecha_sesion >= a /\ r.fecha_sesion <= b)

_chronic_load_calendar(daily, end_day, days) ==
    LET window == Between(daily, end_day - (days - 1), end_day)
    IN  IF window # <<>> THEN RDiv(SumSeq(Column(window, "ua_total")), R(days))
        ELSE Zero

_chronic_load_short(daily, end_day, days) ==
    LET window == Between(daily, end_day - (days - 2), end_day)
    IN  IF window # <<>> THEN SeriesMean(Column(window, "ua_total")) ELSE Zero

\* _chronic_load: mean of ua_total over the rows present in the trailing window
_chronic_load(daily, end_day, days) ==
    LET start == end_day - (days - 1)
        window == Between(daily, start, end_day)
    IN  IF window # <<>> THEN SeriesMean(Column(window, "ua_total")) ELSE Zero

\* RPEFilters(jugadores, turnos, start, end)
RPEFilters(jugadores, turnos, start, end) ==
    [jugadores |-> jugadores, turnos |-> turnos, start |-> start, end |-> end]

\* compute_rpe_metrics: the result before any index is computed
EmptyRes ==
    [ua_total_dia        |-> Null, minutos_sesion      |-> Null,
     carga_semana        |-> Null, carga_mes           |-> Null,
     carga_media_semana  |-> Null, carga_media_mes     |-> Null,
     monotonia_semana    |-> Null,
     fatiga_aguda        |-> Null, fatiga_aguda_diaria |-> Null,
     fatiga_cronica_28d  |-> Null, fatiga_cronica_42d  |-> Null,
     fatiga_cronica_56d  |-> Null,
     adaptacion_28d      |-> Null, adaptacion_42d      |-> Null,
     adaptacion_56d      |-> Null,
     acwr_28d            |-> Null, acwr_42d            |-> Null,
     acwr_56d            |-> Null,
     recuperacion_28d    |-> Null, recuperacion_42d    |-> Null,
     recuperacion_56d    |-> Null,
     variabilidad_semana |-> Null,
     daily_table         |-> <<>>]

EndDay_or_start(f, daily) ==
    IF f.end # NaT THEN f.end
    ELSE IF f.start # NaT THEN f.start
    ELSE SetMax({daily[i].fecha_sesion : i \in 1..Len(daily)})

\* end_day = flt.end or daily["fecha_sesion"].max()
EndDay(f, daily) ==
    IF f.end # NaT THEN f.end
    ELSE SetMax({daily[i].fecha_sesion : i \in 1..Len(daily)})

\* window sum / mean with the 0.0 default of an empty window
WindowSum(w) == IF w # <<>> THEN SeriesSum(Column(w, "ua_total"), 0) ELSE Zero

WindowMean(w) == IF w # <<>> THEN SeriesMean(Column(w, "ua_total")) ELSE Zero

semana_std_sample(daily_week) ==
    IF Len(daily_week) > 1 THEN SeriesStd(Column(daily_week, "ua_total"), 1)
    ELSE Sqrt(Zero)

\* semana_std: population standard deviation of the week, 0.0 below two rows
semana_std(daily_week) ==
    IF Len(daily_week) > 1 THEN SeriesStd(Column(daily_week, "ua_total"), 0)
    ELSE Sqrt(Zero)

\* monotonia_semana: mean / std if std and std > 0, else None
monotonia_semana(semana_mean, std) ==
    IF std[1] > 0 THEN RDivSqrt(semana_mean, <<std[2], std[3]>>) ELSE Null

acwr_raw(fatiga_aguda, cronica) ==
    IF cronica # Zero THEN RDiv(fatiga_aguda, cronica) ELSE Null

\* acwr_Nd: (fatiga_aguda / 7.0) / fatiga_cronica_Nd if that is truthy, else None
acwr(fatiga_aguda, cronica) ==
    IF cronica # Zero THEN RDiv(RDiv(fatiga_aguda, R(7)), cronica) ELSE Null

adaptacion_unguarded(fatiga_aguda, cronica) ==
    RSub(cronica, RDiv(fatiga_aguda, R(7)))

\* adaptacion_Nd and recuperacion_Nd: chronic - acute / 7 if chronic is truthy
adaptacion(fatiga_aguda, cronica) ==
    IF cronica # Zero THEN RSub(cronica, RDiv(fatiga_aguda, R(7))) ELSE Null

recuperacion(fatiga_aguda_diaria, cronica) ==
    IF cronica # Zero THEN RSub(cronica, fatiga_aguda_diaria) ELSE Null

\* compute_rpe_metrics
compute_rpe_metrics(raw, f) ==
    LET df == _prepare_checkout_df(raw)
    IN  IF df = <<>> THEN EmptyRes
        ELSE
        LET daily        == _daily_loads(df)
            end_day      == EndDay(f, daily)
            week         == _current_week_range(end_day)
            daily_week   == Between(daily, week[1], week[2])
            semana_mean  == WindowMean(daily_week)
            std          == semana_std(daily_week)
            day_row      == SelectSeq(daily, LAMBDA r : r.fecha_sesion = end_day)
            month        == _month_range(end_day)
            daily_month  == Between(daily, month[1], month[2])
            daily_last7  == Between(daily, end_day - 6, end_day)
            fatiga_aguda == WindowSum(daily_last7)
            c28          == _chronic_load(daily, end_day, 28)
            c42          == _chronic_load(daily, end_day, 42)
            c56          == _chronic_load(daily, end_day, 56)
            aguda_diaria == RDiv(fatiga_aguda, R(7))
        IN  [ua_total_dia        |-> IF day_row # <<>> THEN day_row[1].ua_total ELSE Zero,
             minutos_sesion      |-> IF day_row # <<>> THEN day_row[1].minutos_total ELSE Zero,
             carga_semana        |-> WindowSum(daily_week),
             carga_mes           |-> WindowSum(daily_month),
             carga_media_semana  |-> semana_mean,
             carga_media_mes     |-> WindowMean(daily_month),
             monotonia_semana    |-> monotonia_semana(semana_mean, std),
             fatiga_aguda        |-> fatiga_aguda,
             fatiga_aguda_diaria |-> aguda_diaria,
             fatiga_cronica_28d  |-> c28,
             fatiga_cronica_42d  |-> c42,
             fatiga_cronica_56d  |-> c56,
             adaptacion_28d      |-> adaptacion(fatiga_aguda, c28),
             adaptacion_42d      |-> adaptacion(fatiga_aguda, c42),
             adaptacion_56d      |-> adaptacion(fatiga_aguda, c56),
             acwr_28d            |-> acwr(fatiga_aguda, c28),
             acwr_42d            |-> acwr(fatiga_aguda, c42),
             acwr_56d            |-> acwr(fatiga_aguda, c56),
             recuperacion_28d    |-> recuperacion(aguda_diaria, c28),
             recuperacion_42d    |-> recuperacion(aguda_diaria, c42),
             recuperacion_56d    |-> recuperacion(aguda_diaria, c56),
             variabilidad_semana |-> std,
             daily_table         |-> daily]


-----------------------------------------------------------------------------
(* metrics.py: time-series path.                                           *)

\* The result of a float division by zero: +inf or -inf (0/0 is NaN, Null)
Inf(s) == <<s>>

\* Element-wise a / b of two float columns
FloatDiv(a, b) ==
    IF b # Zero THEN RDiv(a, b)
    ELSE IF a = Zero THEN Null ELSE Inf(Sgn(a[1]))

\* round(2) of a float column entry: NaN and the infinities stay
RoundCell(x) == IF Len(x) = 2 THEN Round2(x) ELSE x

\* groupby("fecha_sesion")["ua"].sum(): absent loads are skipped, and a day
\* whose loads are all absent sums to 0
DaySum(df, d) ==
    SeriesSum(Column(SelectSeq(df, LAMBDA r : r.fecha_sesion = d), "ua"), 0)

daily_calendar_present_days(df) ==
    LET dated  == SelectSeq(df, LAMBDA r : r.fecha_sesion # NaT)
        fechas == SortedSeq({dated[i].fecha_sesion : i \in 1..Len(dated)})
    IN  [k \in 1..Len(fechas) |->
            [fecha_sesion |-> fechas[k], ua |-> DaySum(dated, fechas[k])]]

\* dropna(fecha_sesion), groupby-sum, asfreq("D"), fillna(0): one row per
\* calendar day from the first to the last session date
daily_calendar(df) ==
    LET dated  == SelectSeq(df, LAMBDA r : r.fecha_sesion # NaT)
        fechas == {dated[i].fecha_sesion : i \in 1..Len(dated)}
    IN  IF fechas = {} THEN <<>>
        ELSE LET first == SetMin(fechas)
                 last  == SetMax(fechas)
             IN  [k \in 1..(last - first + 1) |->
                    [fecha_sesion |-> first + k - 1,
                     ua |-> IF first + k - 1 \in fechas
                            THEN DaySum(dated, first + k - 1) ELSE Zero]]

rolling_mean_full_window(x, i, window) ==
    RDiv(SumSeq(SubSeq(x, IF i - window + 1 < 1 THEN 1 ELSE i - window + 1, i)),
         R(window))

\* Series.rolling(window, min_periods = 1).mean() at position i
rolling_mean(x, i, window) ==
    LET lo == IF i - window + 1 < 1 THEN 1 ELSE i - window + 1
    IN  RDiv(SumSeq(SubSeq(x, lo, i)), R(i - lo + 1))

\* A polynomial in q = exp(-1 / tau) with rational coefficients, lowest
\* degree first, without trailing zero coefficients
RECURSIVE PolyTrim(_)
PolyTrim(c) ==
    IF Len(c) > 1 /\ c[Len(c)] = Zero THEN PolyTrim(SubSeq(c, 1, Len(c) - 1)) ELSE c

RECURSIVE _ema_zero_seed(_, _, _)
_ema_zero_seed(x, i, tau) ==
    IF i = 1 THEN PolyTrim(<<x[1], RSub(Zero, x[1])>>)
    ELSE LET prev == _ema_zero_seed(x, i - 1, tau)
         IN  PolyTrim(<<x[i], RSub(prev[1], x[i])>> \o Tail(prev))

\* _ema at position i: series.ewm(alpha = 1 - exp(-1 / tau), adjust = False).mean(),
\* y_1 = x_1 and y_i = alpha * x_i + (1 - alpha) * y_(i-1) = x_i + q * (y_(i-1) - x_i),
\* kept as a polynomial in q (tau only names which q it is)
RECURSIVE _ema(_, _, _)
_ema(x, i, tau) ==
    IF i = 1 THEN <<x[1]>>
    ELSE LET prev == _ema(x, i - 1, tau)
         IN  PolyTrim(<<x[i], RSub(prev[1], x[i])>> \o Tail(prev))

\* A formal difference and a formal quotient of two EMA values
EmaDiff(a, b) == [minuend |-> a, subtrahend |-> b]

EmaRatio(a, b) == [numerator |-> a, denominator |-> b]

\* DataFrame.round(2) of an EMA column entry: the rounding of the real number
\* that v denotes, kept as the formal application of round(., 2) to v
EmaRounded(v) == [round2 |-> v]

\* compute_rpe_timeseries: one row per calendar day; the columns named after
\* the windows (fatiga_aguda_7d_sma, ...) are the fields without the number
compute_rpe_timeseries(df, ventana_aguda, ventana_cronica) ==
    IF df = <<>> THEN <<>>
    ELSE LET daily == daily_calendar(df)
             x     == Column(daily, "ua")
         IN  [i \in 1..Len(daily) |->
                LET aguda_sma   == rolling_mean(x, i, ventana_aguda)
                    cronica_sma == rolling_mean(x, i, ventana_cronica)
                    aguda_ema   == _ema(x, i, ventana_aguda)
                    cronica_ema == _ema(x, i, ventana_cronica)
                IN  [fecha_sesion       |-> daily[i].fecha_sesion,
                     ua_diaria          |-> RoundCell(x[i]),
                     fatiga_aguda_sma   |-> RoundCell(aguda_sma),
                     fatiga_cronica_sma |-> RoundCell(cronica_sma),
                     recuperacion_sma   |-> RoundCell(RSub(cronica_sma, aguda_sma)),
                     acwr_sma           |-> RoundCell(FloatDiv(aguda_sma, cronica_sma)),
                     fatiga_aguda_ema   |-> EmaRounded(aguda_ema),
                     fatiga_cronica_ema |-> EmaRounded(cronica_ema),
                     recuperacion_ema   |-> EmaRounded(EmaDiff(cronica_ema, aguda_ema)),
                     acwr_ema           |-> EmaRounded(EmaRatio(aguda_ema, cronica_ema))]]

-----------------------------------------------------------------------------
(* ui_grupal.py: per-player table and squad aggregates.                    *)

\* A missing id_jugadora (NaN): DataFrame.groupby drops such rows
NullId == "<NA>"

\* The keys of df.groupby("id_jugadora"), ascending
GroupKeys(df) ==
    {df[i].id_jugadora : i \in 1..Len(df)} \ {NullId}

\* str ordering of the ids in use
IdOrder == {<<"A", "B">>, <<"A", "C">>, <<"B", "C">>}

RECURSIVE SortedIds(_)
SortedIds(S) ==
    IF S = {} THEN <<>>
    ELSE LET m == CHOOSE x \in S : \A y \in S : x = y \/ <<x, y>> \in IdOrder
         IN  <<m>> \o SortedIds(S \ {m})

df_jug_whole(df, id) == df

\* df_jug: the group of one id_jugadora
df_jug(df, id) == SelectSeq(df, LAMBDA r : r.id_jugadora = id)

\* "if not metrics: continue" - a dict is falsy only when it has no key
MetricsIsFalsy(metrics) == DOMAIN metrics = {}

\* The row appended for one player
PlayerRow(id, metrics) ==
    [id_jugadora        |-> id,
     ua_dia             |-> metrics.ua_total_dia,
     minutos_dia        |-> metrics.minutos_sesion,
     carga_semana       |-> metrics.carga_semana,
     carga_mes          |-> metrics.carga_mes,
     fatiga_aguda       |-> metrics.fatiga_aguda,
     fatiga_cronica_28d |-> metrics.fatiga_cronica_28d,
     fatiga_cronica_42d |-> metrics.fatiga_cronica_42d,
     fatiga_cronica_56d |-> metrics.fatiga_cronica_56d,
     acwr_28d           |-> metrics.acwr_28d,
     acwr_42d           |-> metrics.acwr_42d,
     acwr_56d           |-> metrics.acwr_56d,
     monotonia          |-> metrics.monotonia_semana,
     variabilidad       |-> metrics.variabilidad_semana,
     adaptacion_28d     |-> metrics.adaptacion_28d,
     adaptacion_42d     |-> metrics.adaptacion_42d,
     adaptacion_56d     |-> metrics.adaptacion_56d]

RECURSIVE PlayerRows(_, _, _, _, _, _)
PlayerRows(ids, df, jugadores, turnos, start, end) ==
    IF ids = <<>> THEN <<>>
    ELSE LET id      == Head(ids)
             f       == RPEFilters(<<id>>, turnos, start, end)
             metrics == compute_rpe_metrics(df_jug(df, id), f)
             rest    == PlayerRows(Tail(ids), df, jugadores, turnos, start, end)
         IN  IF MetricsIsFalsy(metrics) THEN rest
             ELSE <<PlayerRow(id, metrics)>> \o rest

\* compute_rpe_metrics_by_player: one row per id_jugadora of df
compute_rpe_metrics_by_player(df, jugadores, turnos, start, end) ==
    PlayerRows(SortedIds(GroupKeys(df)), df, jugadores, turnos, start, end)

EmptyGrupo ==
    [jugadoras_activas        |-> 0,
     carga_semana_total       |-> Null, carga_semana_media       |-> Null,
     fatiga_aguda_media       |-> Null,
     fatiga_cronica_28d_media |-> Null, fatiga_cronica_42d_media |-> Null,
     fatiga_cronica_56d_media |-> Null,
     acwr_medio_28d           |-> Null, acwr_medio_42d           |-> Null,
     acwr_medio_56d           |-> Null,
     dispersion_carga         |-> Null]

dispersion_population(carga_semana) == SeriesStd(carga_semana, 0)

\* df_players["carga_semana"].std(): pandas' default ddof = 1
dispersion_carga(carga_semana) == SeriesStd(carga_semana, 1)

\* df_players["carga_semana"].sum(): pandas' default min_count = 0
carga_semana_total(carga_semana) == SeriesSum(carga_semana, 0)

\* metricas_grupal: the grupo dict built from the per-player table
GrupoOf(players) ==
    [jugadoras_activas        |-> Len(players),
     carga_semana_total       |-> carga_semana_total(Column(players, "carga_semana")),
     carga_semana_media       |-> SeriesMean(Column(players, "carga_semana")),
     fatiga_aguda_media       |-> SeriesMean(Column(players, "fatiga_aguda")),
     fatiga_cronica_28d_media |-> SeriesMean(Column(players, "fatiga_cronica_28d")),
     fatiga_cronica_42d_media |-> SeriesMean(Column(players, "fatiga_cronica_42d")),
     fatiga_cronica_56d_media |-> SeriesMean(Column(players, "fatiga_cronica_56d")),
     acwr_medio_28d           |-> SeriesMean(Column(players, "acwr_28d")),
     acwr_medio_42d           |-> SeriesMean(Column(players, "acwr_42d")),
     acwr_medio_56d           |-> SeriesMean(Column(players, "acwr_56d")),
     dispersion_carga         |-> dispersion_carga(Column(players, "carga_semana"))]

\* compute_rpe_timeseries_group: the squad's summed daily load and its SMA
\* curves; fatiga_cronica, recuperacion and acwr are named after ventana_cronica
compute_rpe_timeseries_group(df, ventana_aguda, ventana_cronica) ==
    IF df = <<>> THEN <<>>
    ELSE LET daily == daily_calendar(df)
             x     == Column(daily, "ua")
         IN  [i \in 1..Len(daily) |->
                LET aguda   == rolling_mean(x, i, ventana_aguda)
                    cronica == rolling_mean(x, i, ventana_cronica)
                IN  [fecha_sesion    |-> daily[i].fecha_sesion,
                     ua_grupal       |-> RoundCell(x[i]),
                     fatiga_aguda_7d |-> RoundCell(aguda),
                     fatiga_cronica  |-> RoundCell(cronica),
                     recuperacion    |-> RoundCell(RSub(cronica, aguda)),
                     acwr            |-> RoundCell(FloatDiv(aguda, cronica))]]


\* plot_estado_carga_grupal: what the squad load chart shows for the table it
\* is given; col_cronica is fatiga_cronica_{ventana_cronica}d_ema
plot_estado_carga_grupal(df) ==
    LET required == {"fecha_sesion", "ua_grupal", "fatiga_aguda_7d_ema",
                     "fatiga_cronica_ema"}
    IN  IF df = <<>> THEN "no_data"
        ELSE IF required \ Columns(df) # {} THEN "missing_columns"
        ELSE "chart"

-----------------------------------------------------------------------------
(* Inputs.                                                                 *)

SeqsUpTo(S, n) == UNION {[1..k -> S] : k \in 0..n}

Row(id, tipo, ua, fecha, minutos) ==
    [id_jugadora |-> id, tipo |-> tipo, ua |-> ua,
     fecha_sesion |-> fecha, minutos_sesion |-> minutos]

\* Session dates of the snapshot inputs, placed around the window edges of the
\* reference date 60 (a Thursday): 56 days back is 5, 42 is 19, 28 is 33,
\* 7 is 54; its week is 57..63.
SnapDays == {4, 5, 19, 33, 54, 58, 60, 61}

SnapRows ==
    {Row("A", "checkOut", R(u), d, R(60)) : u \in {10, 40}, d \in SnapDays}
    \cup {Row("A", "checkOut", R(0), d, R(45)) : d \in {33, 58, 60}}
    \cup {Row("A", "checkIn", R(10), 60, R(60)),
          Row("A", "checkOut", Null, 60, R(60)),
          Row("A", "checkOut", R(10), NaT, Null)}

\* One session of load 100 on day 1, nothing else through day 28
ScenarioSingle == <<Row("A", "checkOut", R(100), 1, R(60))>>

\* A row of a table that carries its date in a fecha column
RowFecha(id, tipo, ua, fecha, minutos) ==
    [id_jugadora |-> id, tipo |-> tipo, ua |-> ua,
     fecha |-> fecha, minutos_sesion |-> minutos]

\* Tables with a load that does not parse, and tables without fecha_sesion
MalformedRows ==
    {Row("A", "checkOut", NotANumber, 60, R(60)),
     Row("A", "checkOut", R(10), 60, R(60))}

FechaRows ==
    {RowFecha("A", "checkOut", R(10), 60, R(60)),
     RowFecha("A", "checkIn", Null, 60, R(60))}

MalformedInputs ==
    (SeqsUpTo(MalformedRows, 2) \cup (SeqsUpTo(FechaRows, 2) \ {<<>>})) \X {NaT}

\* Sessions on the Monday 57 and the Sunday 63 of one week and on the days
\* just outside it, seen from each day of that week
WeekEdgeRows == {Row("A", "checkOut", R(10), d, R(60)) : d \in {56, 57, 63, 64}}

WeekEdgeInputs == SeqsUpTo(WeekEdgeRows, 2) \X (57..63)

\* Sessions of two athletes and two shifts on either side of the start date
\* 59, and the filters that select athlete A, the morning shift or that start
RowTurno(id, tipo, ua, fecha, minutos, turno) ==
    [id_jugadora |-> id, tipo |-> tipo, ua |-> ua,
     fecha_sesion |-> fecha, minutos_sesion |-> minutos, turno |-> turno]

FilterRows ==
    {RowTurno("A", "checkOut", R(10), 58, R(60), "manana"),
     RowTurno("A", "checkOut", R(40), 60, R(60), "tarde"),
     RowTurno("B", "checkOut", R(40), 58, R(60), "tarde"),
     RowTurno("B", "checkOut", R(10), 60, R(60), "manana")}

FilterInputs ==
    SeqsUpTo(FilterRows, 2)
        \X {RPEFilters(j, t, s, e) : j \in {Null, <<"A">>}, t \in {Null, <<"manana">>},
                                     s \in {NaT, 59}, e \in {NaT, 60}}

SnapInputs ==
    (SeqsUpTo(SnapRows, MaxRows) \X {NaT, 60})
    \cup {<<ScenarioSingle, 28>>}
    \cup MalformedInputs
    \cup WeekEdgeInputs

\* Squad inputs: the shared reference date 7 is a Sunday, its week is 1..7;
\* day 8 belongs to the next week and to no trailing window of day 7.
GroupRows ==
    {Row("A", "checkOut", R(u), d, R(60)) : u \in {5, 30}, d \in {3, 7, 8}}
    \cup {Row("B", "checkOut", R(u), d, R(60)) : u \in {5, 30}, d \in {7, 8}}
    \cup {Row("A", "checkOut", R(0), 3, R(45)),
          Row("A", "checkIn", R(10), 7, R(60)),
          Row("B", "checkOut", Null, 7, R(60)),
          Row("C", "checkOut", R(30), 7, R(60)),
          Row("C", "checkOut", Null, 3, R(60)),
          Row(NullId, "checkOut", R(5), 7, R(60))}

RECURSIVE WeekOf(_, _, _)
WeekOf(p, loads, day) ==
    IF loads = <<>> THEN <<>>
    ELSE <<Row(p, "checkOut", R(Head(loads)), day, R(60))>>
         \o WeekOf(p, Tail(loads), day + 1)

\* Athlete A with loads 10,20,30,0,0,0,0 and B with 5 every day, days 1..7
ScenarioTwoAthletes ==
    WeekOf("A", <<10, 20, 30, 0, 0, 0, 0>>, 1) \o WeekOf("B", <<5, 5, 5, 5, 5, 5, 5>>, 1)

GroupInputs ==
    (SeqsUpTo(GroupRows, MaxRows) \X {NaT, 7}) \cup {<<ScenarioTwoAthletes, 7>>}

\* Time-series inputs: sessions on days 1, 2, 4 and 9 leave gaps of one and
\* of four days, and the ninth day lies beyond a 7-day window.
SeriesRows ==
    {Row("A", "checkOut", R(u), d, R(60)) : u \in {10, 25}, d \in {1, 2, 4, 9}}
    \cup {Row("A", "checkOut", R(0), 2, R(45)),
          Row("A", "checkOut", Null, 2, R(60)),
          Row("A", "checkOut", R(10), NaT, R(60)),
          Row("B", "checkOut", R(10), 2, R(60))}

\* <<ventana_aguda, ventana_cronica>>: the defaults and two short pairs
SeriesWindows == {<<7, 42>>, <<2, 3>>, <<3, 2>>}

-----------------------------------------------------------------------------
(* Snapshot of one athlete.                                                *)

InitSnapshot ==
    /\ \/ \E in \in SnapInputs :
             /\ df_raw = in[1]
             /\ flt = RPEFilters(Null, Null, NaT, in[2])
       \/ \E in \in FilterInputs :
             /\ df_raw = in[1]
             /\ flt = in[2]
    /\ ventanas = <<7, 42>>
    /\ pc = "input"
    /\ res = EmptyRes
    /\ df_players = <<>>
    /\ grupo = EmptyGrupo
    /\ ui = "none"
    /\ ts = <<>>
    /\ ts_group = <<>>

ComputeRpeMetrics ==
    /\ pc = "input"
    /\ IF _prepare_checkout_df_KeyError(df_raw)
       THEN /\ pc' = "KeyError"
            /\ res' = res
       ELSE /\ pc' = "compute_rpe_metrics"
            /\ res' = compute_rpe_metrics(df_raw, flt)
    /\ UNCHANGED <<df_raw, flt, ventanas, df_players, grupo, ui, ts, ts_group>>

NextSnapshot == ComputeRpeMetrics

SpecSnapshot == InitSnapshot /\ [][NextSnapshot]_vars


-----------------------------------------------------------------------------
(* Squad summary.                                                          *)

InitGroup ==
    /\ \E in \in GroupInputs :
          /\ df_raw = in[1]
          /\ flt = RPEFilters(Null, Null, NaT, in[2])
    /\ ventanas = <<7, 42>>
    /\ pc = "input"
    /\ res = EmptyRes
    /\ df_players = <<>>
    /\ grupo = EmptyGrupo
    /\ ui = "none"
    /\ ts = <<>>
    /\ ts_group = <<>>

\* metricas_grupal(df, jugadores, turnos, start, end)
MetricasGrupal ==
    /\ pc = "input"
    /\ pc' = "metricas_grupal"
    /\ IF df_raw = <<>>
       THEN /\ ui' = "no_records"
            /\ UNCHANGED <<df_players, grupo>>
       ELSE LET players == compute_rpe_metrics_by_player(
                               df_raw, flt.jugadores, flt.turnos, flt.start, flt.end)
            IN  /\ df_players' = players
                /\ IF players = <<>>
                   THEN ui' = "no_metrics" /\ UNCHANGED grupo
                   ELSE ui' = "summary" /\ grupo' = GrupoOf(players)
    /\ UNCHANGED <<df_raw, flt, ventanas, res, ts, ts_group>>

NextGroup == MetricasGrupal

SpecGroup == InitGroup /\ [][NextGroup]_vars

-----------------------------------------------------------------------------
(* Daily time series.                                                      *)

InitSeries ==
    /\ df_raw \in SeqsUpTo(SeriesRows, MaxRows)
    /\ flt = RPEFilters(Null, Null, NaT, NaT)
    /\ ventanas \in SeriesWindows
    /\ pc = "input"
    /\ res = EmptyRes
    /\ df_players = <<>>
    /\ grupo = EmptyGrupo
    /\ ui = "none"
    /\ ts = <<>>
    /\ ts_group = <<>>

ComputeRpeTimeseries ==
    /\ pc \in {"input", "compute_rpe_timeseries_group"}
    /\ ts' = compute_rpe_timeseries(df_raw, ventanas[1], ventanas[2])
    /\ pc' = IF pc = "input" THEN "compute_rpe_timeseries" ELSE "timeseries_both"
    /\ UNCHANGED <<df_raw, flt, ventanas, res, df_players, grupo, ui, ts_group>>

ComputeRpeTimeseriesGroup ==
    /\ pc \in {"input", "compute_rpe_timeseries"}
    /\ ts_group' = compute_rpe_timeseries_group(df_raw, ventanas[1], ventanas[2])
    /\ pc' = IF pc = "input" THEN "compute_rpe_timeseries_group" ELSE "timeseries_both"
    /\ UNCHANGED <<df_raw, flt, ventanas, res, df_players, grupo, ui, ts>>

NextSeries == ComputeRpeTimeseries \/ ComputeRpeTimeseriesGroup

SpecSeries == InitSeries /\ [][NextSeries]_vars

-----------------------------------------------------------------------------
(* Properties of the snapshot (SpecSnapshot).                              *)

SnapshotDone == pc = "compute_rpe_metrics" /\ res.daily_table # <<>>

\* The reference date of the snapshot in res
RefDay ==
    IF flt.end # NaT THEN flt.end
    ELSE SetMax({res.daily_table[i].fecha_sesion : i \in DOMAIN res.daily_table})

\* Rows of the daily table dated in [a, b]
RowsIn(a, b) ==
    {i \in DOMAIN res.daily_table :
        a <= res.daily_table[i].fecha_sesion /\ res.daily_table[i].fecha_sesion <= b}

RECURSIVE UaOver(_)
UaOver(I) ==
    IF I = {} THEN Zero
    ELSE LET i == CHOOSE j \in I : TRUE
         IN  RAdd(res.daily_table[i].ua_total, UaOver(I \ {i}))

RECURSIVE UaSquaresOver(_)
UaSquaresOver(I) ==
    IF I = {} THEN Zero
    ELSE LET i == CHOOSE j \in I : TRUE
             x == res.daily_table[i].ua_total
         IN  RAdd(RMul(x, x), UaSquaresOver(I \ {i}))

FatigaCronica(n) ==
    CASE n = 28 -> res.fatiga_cronica_28d
      [] n = 42 -> res.fatiga_cronica_42d
      [] n = 56 -> res.fatiga_cronica_56d

AcwrOf(n) ==
    CASE n = 28 -> res.acwr_28d
      [] n = 42 -> res.acwr_42d
      [] n = 56 -> res.acwr_56d

\* C1: fatiga_cronica_Nd is the mean of ua_total over the rows of the daily
\* table dated in [end_day - (N - 1), end_day] (absent days are not counted),
\* and 0.0 when no row is dated in that window, for N in {28, 42, 56}.
C1_ChronicIsMeanOfPresentDays ==
    SnapshotDone =>
        \A n \in {28, 42, 56} :
            LET I == RowsIn(RefDay - (n - 1), RefDay)
            IN  FatigaCronica(n) =
                    IF I = {} THEN Zero ELSE RDiv(UaOver(I), R(Cardinality(I)))

C1_Witness ==
    /\ SnapshotDone
    /\ Cardinality(RowsIn(RefDay - 27, RefDay)) = 2
    /\ Cardinality(RowsIn(RefDay - 55, RefDay)) = 3
    /\ res.fatiga_cronica_28d # Zero
    /\ res.fatiga_cronica_28d # res.fatiga_cronica_56d

SingleSessionCase ==
    pc = "compute_rpe_metrics" /\ df_raw = ScenarioSingle /\ flt.end = 28

\* C2 as stated: one session of load 100 on day 1 and none through day 28
\* gives fatiga_cronica_28d = 100/28 on day 28.
C2_SingleSessionIsSpreadOver28Days ==
    SingleSessionCase => res.fatiga_cronica_28d = Rat(100, 28)

\* C2 as amended: one session of load 100 on day 1 and none through day 28
\* gives fatiga_cronica_28d = 100 on day 28 (the mean over the one day present).
C2_SingleSessionIsItsOwnMean ==
    SingleSessionCase => res.fatiga_cronica_28d = R(100)

C2_Witness ==
    /\ SingleSessionCase
    /\ Len(res.daily_table) = 1
    /\ res.fatiga_aguda = Zero

\* C3: acwr_Nd is None whenever fatiga_cronica_Nd is 0, and otherwise it is
\* (fatiga_aguda / 7) / fatiga_cronica_Nd, fatiga_aguda being the sum of
\* ua_total over the rows dated in [end_day - 6, end_day].
C3_AcwrIsNullOrRatio ==
    SnapshotDone =>
        /\ res.fatiga_aguda = UaOver(RowsIn(RefDay - 6, RefDay))
        /\ \A n \in {28, 42, 56} :
              AcwrOf(n) =
                  IF FatigaCronica(n) = Zero THEN Null
                  ELSE RDiv(res.fatiga_aguda, RMul(R(7), FatigaCronica(n)))

C3_Witness ==
    /\ SnapshotDone
    /\ res.acwr_28d # Null
    /\ res.acwr_28d # Zero
    /\ res.acwr_42d # res.acwr_28d
    /\ res.fatiga_cronica_42d # Zero

WeekRows == RowsIn(_current_week_range(RefDay)[1], _current_week_range(RefDay)[2])

\* n^2 times the population variance of the week's daily loads
WeekSpread ==
    RSub(RMul(R(Cardinality(WeekRows)), UaSquaresOver(WeekRows)),
         RMul(UaOver(WeekRows), UaOver(WeekRows)))

WeekVariance ==
    RDiv(WeekSpread, R(Cardinality(WeekRows) * Cardinality(WeekRows)))

\* C4: monotonia_semana is None when the week holds at most one daily row or
\* its loads have zero variance, and otherwise carga_media_semana divided by
\* the population standard deviation of the week's loads; variabilidad_semana
\* is that standard deviation (0.0 below two rows) in either case.
C4_MonotonyIsMeanOverPopulationStd ==
    SnapshotDone =>
        /\ res.variabilidad_semana =
              IF Cardinality(WeekRows) < 2 THEN Sqrt(Zero) ELSE Sqrt(WeekVariance)
        /\ res.monotonia_semana =
              IF Cardinality(WeekRows) <= 1 \/ WeekSpread = Zero THEN Null
              ELSE RDivSqrt(res.carga_media_semana, WeekVariance)

C4_Witness ==
    /\ SnapshotDone
    /\ Cardinality(WeekRows) = 3
    /\ res.monotonia_semana # Null
    /\ res.variabilidad_semana # Sqrt(Zero)



AdaptacionOf(n) ==
    CASE n = 28 -> res.adaptacion_28d
      [] n = 42 -> res.adaptacion_42d
      [] n = 56 -> res.adaptacion_56d

RecuperacionOf(n) ==
    CASE n = 28 -> res.recuperacion_28d
      [] n = 42 -> res.recuperacion_42d
      [] n = 56 -> res.recuperacion_56d

\* C15: for N in {28, 42, 56}, adaptacion_Nd and recuperacion_Nd are equal,
\* both are fatiga_cronica_Nd - fatiga_aguda / 7 when fatiga_cronica_Nd is
\* not zero, and both are None when it is zero.
C15_AdaptacionEqualsRecuperacion ==
    SnapshotDone =>
        \A n \in {28, 42, 56} :
            /\ AdaptacionOf(n) = RecuperacionOf(n)
            /\ AdaptacionOf(n) =
                  IF FatigaCronica(n) = Zero THEN Null
                  ELSE RSub(FatigaCronica(n), RDiv(res.fatiga_aguda, R(7)))

C15_Witness ==
    /\ SnapshotDone
    /\ res.fatiga_aguda # Zero
    /\ res.adaptacion_28d # Null
    /\ res.adaptacion_28d # res.fatiga_cronica_28d
    /\ res.recuperacion_56d # res.recuperacion_28d

\* The Monday on or before the reference date: ordinal 1 is a Monday, so the
\* Mondays are the ordinals congruent to 1 modulo 7
MondayOfRefDay == CHOOSE s \in (RefDay - 6)..RefDay : s % 7 = 1

CalendarWeekRows == RowsIn(MondayOfRefDay, MondayOfRefDay + 6)

\* C17: carga_semana and carga_media_semana are the sum and the mean of
\* ua_total over the daily rows dated from the Monday to the Sunday of the
\* calendar week that contains the reference date, that Monday being the
\* reference date minus its zero-based weekday, and both are 0.0 when no row
\* falls in that week.
C17_WeekIsMondayToSunday ==
    SnapshotDone =>
        /\ MondayOfRefDay = RefDay - ((RefDay - 1) % 7)
        /\ _current_week_range(RefDay) = <<MondayOfRefDay, MondayOfRefDay + 6>>
        /\ res.carga_semana = UaOver(CalendarWeekRows)
        /\ res.carga_media_semana =
              IF CalendarWeekRows = {} THEN Zero
              ELSE RDiv(UaOver(CalendarWeekRows), R(Cardinality(CalendarWeekRows)))

C17_Witness ==
    /\ SnapshotDone
    /\ flt.end = 60
    /\ Cardinality(CalendarWeekRows) = 2
    /\ Cardinality(RowsIn(RefDay - 6, RefDay)) = 2
    /\ res.carga_semana # res.fatiga_aguda
    /\ res.carga_media_semana # res.carga_semana

\* C13: applying _daily_loads to the daily_table that compute_rpe_metrics
\* returned yields a table with the same dates, the same ua_total and the same
\* minutos_total per date.
C13_DailyLoadsIsIdempotent ==
    SnapshotDone =>
        LET again == _daily_loads(res.daily_table)
        IN  /\ Len(again) = Len(res.daily_table)
            /\ \A k \in DOMAIN again :
                  /\ again[k].fecha_sesion = res.daily_table[k].fecha_sesion
                  /\ again[k].ua_total = res.daily_table[k].ua_total
                  /\ again[k].minutos_total = res.daily_table[k].minutos_total

-----------------------------------------------------------------------------
(* Properties of the squad summary (SpecGroup).                            *)

GroupDone == pc = "metricas_grupal"

Usable(r) == r.tipo = "checkOut" /\ r.ua # Null /\ r.fecha_sesion # NaT

\* Indices of the usable rows of athlete p in the input table
UsableOf(p) == {i \in DOMAIN df_raw : df_raw[i].id_jugadora = p /\ Usable(df_raw[i])}

\* The reference date of athlete p: the shared end, else p's last session date
RefDayOf(p) ==
    IF flt.end # NaT THEN flt.end
    ELSE SetMax({df_raw[i].fecha_sesion : i \in UsableOf(p)})

RECURSIVE RawUaOver(_)
RawUaOver(I) ==
    IF I = {} THEN Zero
    ELSE LET i == CHOOSE j \in I : TRUE
         IN  RAdd(df_raw[i].ua, RawUaOver(I \ {i}))

\* carga_semana of athlete p computed on p's rows alone; nothing when p has
\* no usable row
IndividualWeekLoad(p) ==
    IF UsableOf(p) = {} THEN Null
    ELSE LET start == RefDayOf(p) - Weekday(RefDayOf(p))
         IN  RawUaOver({i \in UsableOf(p) :
                 start <= df_raw[i].fecha_sesion /\ df_raw[i].fecha_sesion <= start + 6})

PlayersIds == {df_players[i].id_jugadora : i \in DOMAIN df_players}

RECURSIVE SumOfWeekLoads(_)
SumOfWeekLoads(P) ==
    IF P = {} THEN Zero
    ELSE LET p == CHOOSE q \in P : TRUE
         IN  IF IndividualWeekLoad(p) = Null THEN SumOfWeekLoads(P \ {p})
             ELSE RAdd(IndividualWeekLoad(p), SumOfWeekLoads(P \ {p}))

TwoAthletesCase == GroupDone /\ df_raw = ScenarioTwoAthletes /\ flt.end = 7

\* C5: carga_semana_total is the sum, over the athletes of the per-athlete
\* table, of each athlete's carga_semana computed on that athlete's rows
\* alone; A = 10,20,30,0,0,0,0 and B = 5,5,5,5,5,5,5 over days 1..7 give
\* carga_semana_total = 95 and jugadoras_activas = 2 on day 7.
C5_TotalIsSumOfIndividualWeekLoads ==
    /\ (GroupDone /\ ui = "summary") =>
          grupo.carga_semana_total = SumOfWeekLoads(PlayersIds)
    /\ TwoAthletesCase =>
          grupo.carga_semana_total = R(95) /\ grupo.jugadoras_activas = 2

C5_Witness ==
    /\ GroupDone
    /\ ui = "summary"
    /\ Len(df_raw) <= MaxRows
    /\ Cardinality(PlayersIds) = 2
    /\ \A p \in PlayersIds :
          IndividualWeekLoad(p) # Null /\ IndividualWeekLoad(p) # Zero
    /\ \E i \in DOMAIN df_raw : df_raw[i].fecha_sesion = 8

\* C6: an athlete all of whose rows are unusable has no row in the
\* per-athlete table and is not counted in jugadoras_activas.
C6_UnusableAthleteIsExcluded ==
    GroupDone =>
        /\ \A p \in GroupKeys(df_raw) : UsableOf(p) = {} => p \notin PlayersIds
        /\ ui = "summary" =>
              grupo.jugadoras_activas =
                  Cardinality({p \in GroupKeys(df_raw) : UsableOf(p) # {}})

\* The carga_semana values present in the per-athlete table
WeekLoadsPresent == NotNull(Column(df_players, "carga_semana"))

\* C7: dispersion_carga is the population standard deviation (divisor = the
\* number of athletes) of the per-athlete carga_semana values.
C7_DispersionIsPopulationStd ==
    (GroupDone /\ ui = "summary" /\ WeekLoadsPresent # <<>>) =>
        grupo.dispersion_carga =
            Sqrt(RDiv(SumSqDev(WeekLoadsPresent, SeriesMean(WeekLoadsPresent)),
                      R(Len(WeekLoadsPresent))))

AllNull(col) == NotNull(Column(df_players, col)) = <<>>

MeanAggregates ==
    {<<"carga_semana", grupo.carga_semana_media>>,
     <<"fatiga_aguda", grupo.fatiga_aguda_media>>,
     <<"fatiga_cronica_28d", grupo.fatiga_cronica_28d_media>>,
     <<"fatiga_cronica_42d", grupo.fatiga_cronica_42d_media>>,
     <<"fatiga_cronica_56d", grupo.fatiga_cronica_56d_media>>,
     <<"acwr_28d", grupo.acwr_medio_28d>>,
     <<"acwr_42d", grupo.acwr_medio_42d>>,
     <<"acwr_56d", grupo.acwr_medio_56d>>}

\* C8: every squad sum and mean skips the null entries of its column, and is
\* null (not zero) when every entry of the column is null, carga_semana_total
\* included.
C8_AggregatesSkipNullsAndAllNullIsNull ==
    (GroupDone /\ ui = "summary") =>
        /\ \A a \in MeanAggregates :
              a[2] = IF AllNull(a[1]) THEN Null
                     ELSE RDiv(SumSeq(NotNull(Column(df_players, a[1]))),
                               R(Len(NotNull(Column(df_players, a[1])))))
        /\ grupo.carga_semana_total =
              IF AllNull("carga_semana") THEN Null ELSE SumSeq(WeekLoadsPresent)


-----------------------------------------------------------------------------
(* Properties of the daily time series (SpecSeries).                       *)

SeriesDone == pc \in {"compute_rpe_timeseries", "timeseries_both"}

GroupSeriesDone == pc \in {"compute_rpe_timeseries_group", "timeseries_both"}

SessionDates == {df_raw[i].fecha_sesion : i \in DOMAIN df_raw} \ {NaT}

\* Sum of the loads of the sessions dated in [a, b]
LoadOfDays(a, b) ==
    RawUaOver({i \in DOMAIN df_raw :
        /\ a <= df_raw[i].fecha_sesion
        /\ df_raw[i].fecha_sesion <= b
        /\ df_raw[i].fecha_sesion # NaT
        /\ df_raw[i].ua # Null})

OneRowPerDay(dates, loads) ==
    /\ Len(dates) = SetMax(SessionDates) - SetMin(SessionDates) + 1
    /\ \A i \in DOMAIN dates :
          /\ dates[i] = SetMin(SessionDates) + i - 1
          /\ loads[i] = LoadOfDays(dates[i], dates[i])

\* C9: with at least one dated session, compute_rpe_timeseries and
\* compute_rpe_timeseries_group return exactly one row per calendar day from
\* the first to the last session date, ascending, without gap or duplicate,
\* and each day's load is the sum of the loads of that day's sessions (0 for
\* a day without session).
C9_OneRowPerCalendarDay ==
    SessionDates # {} =>
        /\ SeriesDone =>
              OneRowPerDay(Column(ts, "fecha_sesion"), Column(ts, "ua_diaria"))
        /\ GroupSeriesDone =>
              OneRowPerDay(Column(ts_group, "fecha_sesion"), Column(ts_group, "ua_grupal"))

C9_Witness ==
    /\ pc = "timeseries_both"
    /\ Len(df_raw) = 3
    /\ df_raw[1].fecha_sesion = 9
    /\ df_raw[2].fecha_sesion = 1
    /\ df_raw[3].fecha_sesion = 9
    /\ df_raw[1].ua # Null /\ df_raw[1].ua # Zero
    /\ df_raw[3].ua # Null /\ df_raw[3].ua # Zero
    /\ Len(ts) = 9
    /\ Len(ts_group) = 9

MinOf(a, b) == IF a < b THEN a ELSE b

\* The mean of the gap-filled daily loads of the last min(i, w) calendar days
\* up to the i-th day of the series
CalendarMean(i, w) ==
    RDiv(LoadOfDays(ts[i].fecha_sesion - MinOf(i, w) + 1, ts[i].fecha_sesion),
         R(MinOf(i, w)))

\* C10 as stated: on the i-th day of the gap-filled calendar the SMA curve of
\* window w is the sum of the daily loads of the last min(i, w) calendar days
\* divided by min(i, w), days without a session counting as zero.
C10_SmaIsCalendarMean ==
    SeriesDone =>
        \A i \in DOMAIN ts :
            /\ ts[i].fatiga_aguda_sma = CalendarMean(i, ventanas[1])
            /\ ts[i].fatiga_cronica_sma = CalendarMean(i, ventanas[2])

\* C10 as amended: on the i-th day of the gap-filled calendar the SMA curve of
\* window w is the sum of the daily loads of the last min(i, w) calendar days
\* divided by min(i, w), days without a session counting as zero, rounded to
\* two decimal places.
C10_SmaIsRoundedCalendarMean ==
    SeriesDone =>
        \A i \in DOMAIN ts :
            /\ ts[i].fatiga_aguda_sma = Round2(CalendarMean(i, ventanas[1]))
            /\ ts[i].fatiga_cronica_sma = Round2(CalendarMean(i, ventanas[2]))

C10_Witness ==
    /\ SeriesDone
    /\ ventanas = <<7, 42>>
    /\ Len(ts) = 9
    /\ Cardinality(SessionDates) = 3
    /\ ts[8].fatiga_aguda_sma # Zero
    /\ ts[9].fatiga_aguda_sma # ts[9].fatiga_cronica_sma
    /\ ts[8].fatiga_cronica_sma # CalendarMean(8, 42)

\* The k-th coefficient of a polynomial in q
PolyAt(p, k) == IF k <= Len(p) THEN p[k] ELSE Zero

\* alpha * load + (1 - alpha) * prev for alpha = 1 - q, as a polynomial in q:
\* (load - q * load) + q * prev
EmaStep(load, prev) ==
    LET aload == <<load, RSub(Zero, load)>>
        qprev == <<Zero>> \o prev
    IN  PolyTrim([k \in 1..Len(qprev) |-> RAdd(PolyAt(aload, k), PolyAt(qprev, k))])

\* The raw load of the i-th day of the series
LoadOfDay(i) == LoadOfDays(ts[i].fecha_sesion, ts[i].fecha_sesion)

\* An EMA column entry is the number round(v, 2) of the real number v that its
\* polynomial denotes. That number is known when the polynomial is constant.
EmaCellIs(cell, value) ==
    /\ Len(cell.round2) = 1
    /\ Round2(cell.round2[1]) = value

\* On the first day the four curves are the raw load and both recoveries are 0
FirstDayIsRawLoad ==
    ts # <<>> =>
        /\ ts[1].fatiga_aguda_sma = LoadOfDay(1)
        /\ ts[1].fatiga_cronica_sma = LoadOfDay(1)
        /\ ts[1].recuperacion_sma = Zero
        /\ EmaCellIs(ts[1].fatiga_aguda_ema, LoadOfDay(1))
        /\ EmaCellIs(ts[1].fatiga_cronica_ema, LoadOfDay(1))
        /\ ts[1].recuperacion_ema.round2.minuend = <<LoadOfDay(1)>>
        /\ ts[1].recuperacion_ema.round2.subtrahend = <<LoadOfDay(1)>>

\* cur = alpha * load + (1 - alpha) * prev between two entries of an EMA
\* column. q = exp(-1 / tau) is transcendental, so a polynomial in q with
\* rational coefficients denotes a rational number only when it is constant,
\* and a column entry, a number of two decimals, equals no other polynomial.
\* When the previous entry is the rounding of a non-constant polynomial its
\* digits are not determined here and the equation is not asserted to fail.
ColumnFollowsRecurrence(cur, prev, load) ==
    Len(prev.round2) = 1 =>
        LET rhs == EmaStep(load, <<Round2(prev.round2[1])>>)
        IN  /\ Len(rhs) = 1
            /\ EmaCellIs(cur, rhs[1])

\* C11 as stated: on the first day of the series the SMA acute and chronic
\* curves and the EMA acute and chronic curves equal the raw load of that day
\* (so both recoveries are 0), and on each later day the EMA curve equals
\* alpha * load + (1 - alpha) * the previous day's EMA.
C11_EmaColumnFollowsRecurrence ==
    SeriesDone =>
        /\ FirstDayIsRawLoad
        /\ \A i \in DOMAIN ts : i > 1 =>
              /\ ColumnFollowsRecurrence(ts[i].fatiga_aguda_ema,
                                         ts[i - 1].fatiga_aguda_ema, LoadOfDay(i))
              /\ ColumnFollowsRecurrence(ts[i].fatiga_cronica_ema,
                                         ts[i - 1].fatiga_cronica_ema, LoadOfDay(i))

\* C11 as amended: on the first day of the series the SMA acute and chronic
\* curves and the EMA acute and chronic curves equal the raw load of that day
\* (so both recoveries are 0), and on each later day the EMA curve is the
\* rounding to two decimal places of alpha * load + (1 - alpha) * the previous
\* day's EMA before its rounding, with no bias correction.
C11_EmaIsRoundedRecurrence ==
    SeriesDone =>
        /\ FirstDayIsRawLoad
        /\ \A i \in DOMAIN ts : i > 1 =>
              /\ ts[i].fatiga_aguda_ema =
                    EmaRounded(EmaStep(LoadOfDay(i), ts[i - 1].fatiga_aguda_ema.round2))
              /\ ts[i].fatiga_cronica_ema =
                    EmaRounded(EmaStep(LoadOfDay(i), ts[i - 1].fatiga_cronica_ema.round2))

C11_Witness ==
    /\ SeriesDone
    /\ Len(ts) = 4
    /\ ts[1].ua_diaria # Zero
    /\ ts[2].ua_diaria # Zero
    /\ ts[2].ua_diaria # ts[1].ua_diaria
    /\ ts[3].ua_diaria = Zero
    /\ Len(ts[4].fatiga_aguda_ema.round2) = 4

\* C12: for the same table and windows the group variant yields, for each day,
\* the same acute, chronic, recovery and ACWR curves as compute_rpe_timeseries
\* for both smoothing methods: its SMA curves are those curves and it carries
\* the EMA curves the squad load chart requires.
C12_GroupSeriesCarriesSmaAndEma ==
    pc = "timeseries_both" =>
        /\ Len(ts_group) = Len(ts)
        /\ \A i \in DOMAIN ts_group :
              /\ ts_group[i].fatiga_aguda_7d = ts[i].fatiga_aguda_sma
              /\ ts_group[i].fatiga_cronica = ts[i].fatiga_cronica_sma
              /\ ts_group[i].recuperacion = ts[i].recuperacion_sma
              /\ ts_group[i].acwr = ts[i].acwr_sma
              /\ {"fatiga_aguda_7d_ema", "fatiga_cronica_ema",
                  "recuperacion_ema", "acwr_ema"} \subseteq Columns(ts_group)
              /\ ts_group[i].fatiga_aguda_7d_ema = ts[i].fatiga_aguda_ema
              /\ ts_group[i].fatiga_cronica_ema = ts[i].fatiga_cronica_ema
              /\ ts_group[i].recuperacion_ema = ts[i].recuperacion_ema
              /\ ts_group[i].acwr_ema = ts[i].acwr_ema
        /\ ts_group # <<>> => plot_estado_carga_grupal(ts_group) = "chart"

-----------------------------------------------------------------------------
(* Properties of the snapshot on empty and malformed inputs (SpecSnapshot). *)

\* compute_rpe_metrics has returned or raised
SnapshotCalled == pc \in {"compute_rpe_metrics", "KeyError"}

\* A row tagged checkOut with a load that parses as a number and a date
UsableRow(r) ==
    /\ r.tipo = "checkOut"
    /\ r.ua # Null /\ r.ua # NotANumber
    /\ r.fecha_sesion # NaT

\* The input is empty, or normalization leaves it empty: it has no checkOut
\* row with a numeric load and a date
NormalizesToEmpty ==
    \/ df_raw = <<>>
    \/ /\ "fecha_sesion" \in Columns(df_raw)
       /\ \A i \in DOMAIN df_raw : ~UsableRow(df_raw[i])

IndexNames ==
    {"ua_total_dia", "minutos_sesion", "carga_semana", "carga_mes",
     "carga_media_semana", "carga_media_mes", "monotonia_semana",
     "fatiga_aguda", "fatiga_aguda_diaria",
     "fatiga_cronica_28d", "fatiga_cronica_42d", "fatiga_cronica_56d",
     "adaptacion_28d", "adaptacion_42d", "adaptacion_56d",
     "acwr_28d", "acwr_42d", "acwr_56d",
     "recuperacion_28d", "recuperacion_42d", "recuperacion_56d",
     "variabilidad_semana"}

\* C14: when the input is empty or becomes empty after normalization,
\* compute_rpe_metrics raises no error and returns a result in which every
\* index is None and daily_table is empty.
C14_EmptyInputGivesNullResult ==
    (SnapshotCalled /\ NormalizesToEmpty) =>
        /\ pc = "compute_rpe_metrics"
        /\ DOMAIN res = IndexNames \cup {"daily_table"}
        /\ \A f \in IndexNames : res[f] = Null
        /\ res.daily_table = <<>>

C14_Witness ==
    /\ pc = "compute_rpe_metrics"
    /\ flt.end = 60
    /\ Len(df_raw) = 3
    /\ NormalizesToEmpty
    /\ df_raw[1].tipo = "checkIn"
    /\ df_raw[2].ua = Null
    /\ df_raw[3].fecha_sesion = NaT

\* C16: the normalizer raises no error, also when the date arrives in a fecha
\* column without a fecha_sesion column, and its output is exactly the input
\* rows that are tagged checkOut, have a load that parses as a number and have
\* a date, in the input's order.
C16_NormalizerKeepsExactlyUsableRows ==
    SnapshotCalled =>
        /\ pc # "KeyError"
        /\ _prepare_checkout_df(df_raw) = SelectSeq(df_raw, UsableRow)

-----------------------------------------------------------------------------
(* The filter argument of the snapshot (SpecSnapshot).                      *)

\* The members of a list of the filter (None lists nothing)
Listed(l) == {l[i] : i \in DOMAIN l}

\* C18: compute_rpe_metrics depends on its filter only through flt.end: the
\* result is the one of the call on the same table with jugadores, turnos and
\* start unset, so every usable row, also one dated before start or of a
\* shift or athlete the filter leaves out, has its date in the daily table
\* that all window statistics are taken from.
C18_OnlyEndOfFilterMatters ==
    pc = "compute_rpe_metrics" =>
        /\ res = compute_rpe_metrics(df_raw, RPEFilters(Null, Null, NaT, flt.end))
        /\ \A i \in DOMAIN df_raw :
              UsableRow(df_raw[i]) =>
                  \E k \in DOMAIN res.daily_table :
                      res.daily_table[k].fecha_sesion = df_raw[i].fecha_sesion

C18_Witness ==
    /\ pc = "compute_rpe_metrics"
    /\ flt.start = 59
    /\ flt.end = NaT
    /\ flt.jugadores = <<"A">>
    /\ flt.turnos = <<"manana">>
    /\ Len(df_raw) = 2
    /\ df_raw[1].fecha_sesion < flt.start
    /\ df_raw[1].id_jugadora \notin Listed(flt.jugadores)
    /\ df_raw[1].turno \notin Listed(flt.turnos)
    /\ df_raw[2].fecha_sesion = 60
    /\ res.carga_semana = R(50)
    /\ res.fatiga_cronica_28d = R(25)


====
